---- MODULE Spec2Model ----
(***************************************************************************)
(* Model of the ASDcare assessment flow:                                   *)
(*  - the predict-video edge function                                      *)
(*    (supabase/functions/predict-video/index.ts): the Deno.serve handler  *)
(*    that forwards a video URL to the Python ML service, validates the    *)
(*    reply and maps failures to HTTP responses (Spec, FairSpec,           *)
(*    ConcurrentSpec);                                                     *)
(*  - the questionnaire wizard with its video upload                       *)
(*    (src/components/Questionnaire.tsx; QuestionnaireSpec, ForwardSpec);  *)
(*  - score fusion as spec.md 4.1 describes it, and the result modal that  *)
(*    reads its result (src/components/ResultModal.tsx; FusionSpec);       *)
(*  - the assessment history hook (useAssessmentHistory; HistorySpec).     *)
(* Each specification moves one component and leaves the others as        *)
(* constructed.                                                            *)
(*                                                                         *)
(* Representation:                                                         *)
(*  - a JavaScript string is a sequence of one-character strings, so that  *)
(*    String.prototype.includes and template literals are computed on the  *)
(*    characters;                                                          *)
(*  - a JavaScript number is an integer count of hundredths (0.75 is 75,   *)
(*    100 is 10000), which is exact for every value used here;             *)
(*  - a JavaScript value is a record [t, n, s, o]: its typeof tag, its     *)
(*    number, its string and its object entries (name/value pairs).        *)
(***************************************************************************)
EXTENDS Integers, Sequences, FiniteSets, TLC

\* ------------------------------------------------------------------ bounds
\* Number of handler invocations the runtime serves (possibly concurrently).
NumInvocations == 1
\* Milliseconds by which one Tick advances the clock of the in-flight calls.
TickMs == 60000

\* --------------------------------------------------------------- constants
\* AbortSignal.timeout(120000)
FETCH_TIMEOUT_MS == 120000
\* prediction.confidence || 0.75           (in hundredths)
DEFAULT_CONFIDENCE == 75
\* prediction.prediction_score > 100       (in hundredths)
MAX_PREDICTION_SCORE == 10000
\* prediction.prediction_score < 0
MIN_PREDICTION_SCORE == 0

Invocations == 1..NumInvocations

\* Bounds of the questionnaire: questions in the bank, files a user picks
NumQuestions == 2

MaxUploads == 2

\* file.size > 20 * 1024 * 1024
MAX_VIDEO_BYTES == 20971520

\* ------------------------------------------------------- JavaScript values
Undefined == [t |-> "undefined", n |-> 0, s |-> <<>>, o |-> {}]
Null == [t |-> "null", n |-> 0, s |-> <<>>, o |-> {}]
Num(n) == [t |-> "number", n |-> n, s |-> <<>>, o |-> {}]
Str(s) == [t |-> "string", n |-> 0, s |-> s, o |-> {}]
Obj(o) == [t |-> "object", n |-> 0, s |-> <<>>, o |-> o]

\* typeof v
TypeOf(v) == IF v.t = "null" THEN "object" ELSE v.t

\* !v : undefined, null, 0 and "" are the falsy values that occur here
Falsy(v) ==
    \/ v.t \in {"undefined", "null"}
    \/ v.t = "number" /\ v.n = 0
    \/ v.t = "string" /\ v.s = <<>>

\* a || b
OrElse(a, b) == IF Falsy(a) THEN b ELSE a

\* s.includes(sub)
Includes(s, sub) ==
    \E k \in 0..(Len(s) - Len(sub)) : SubSeq(s, k + 1, k + Len(sub)) = sub

\* `${n}` for a non-negative integer n
RECURSIVE Digits(_)
Digits(n) ==
    LET d == <<"0", "1", "2", "3", "4", "5", "6", "7", "8", "9">>
    IN  IF n < 10 THEN <<d[n + 1]>> ELSE Digits(n \div 10) \o <<d[(n % 10) + 1]>>

\* ---------------------------------------------------------- string literals
VIDEO_URL_REQUIRED == <<"v", "i", "d", "e", "o", "U", "r", "l", " ", "i", "s", " ", "r", "e", "q", "u", "i", "r", "e", "d">>
NOT_CONFIGURED == <<"M", "L", " ", "s", "e", "r", "v", "i", "c", "e", " ", "n", "o", "t", " ", "c", "o", "n", "f", "i", "g", "u", "r", "e", "d", ".", " ", "P", "l", "e", "a", "s", "e", " ", "d", "e", "p", "l", "o", "y", " ", "P", "y", "t", "h", "o", "n", " ", "b", "a", "c", "k", "e", "n", "d", " ", "s", "e", "r", "v", "i", "c", "e", ".">>
INSTRUCTIONS == <<"S", "e", "e", " ", "p", "y", "t", "h", "o", "n", "-", "m", "l", "-", "s", "e", "r", "v", "i", "c", "e", "/", "R", "E", "A", "D", "M", "E", ".", "m", "d", " ", "f", "o", "r", " ", "d", "e", "p", "l", "o", "y", "m", "e", "n", "t", " ", "i", "n", "s", "t", "r", "u", "c", "t", "i", "o", "n", "s">>
ML_SERVICE_RETURNED == <<"M", "L", " ", "s", "e", "r", "v", "i", "c", "e", " ", "r", "e", "t", "u", "r", "n", "e", "d", " ">>
COLON_SPACE == <<":", " ">>
INVALID_SCORE == <<"I", "n", "v", "a", "l", "i", "d", " ", "p", "r", "e", "d", "i", "c", "t", "i", "o", "n", " ", "s", "c", "o", "r", "e", " ", "r", "e", "c", "e", "i", "v", "e", "d", " ", "f", "r", "o", "m", " ", "M", "L", " ", "s", "e", "r", "v", "i", "c", "e">>
UNKNOWN_ERROR == <<"U", "n", "k", "n", "o", "w", "n", " ", "e", "r", "r", "o", "r", " ", "o", "c", "c", "u", "r", "r", "e", "d">>
TIMEOUT_WORD == <<"t", "i", "m", "e", "o", "u", "t">>
ABORTED_WORD == <<"a", "b", "o", "r", "t", "e", "d">>
TYPE_TIMEOUT == <<"t", "i", "m", "e", "o", "u", "t">>
TYPE_PROCESSING_ERROR == <<"p", "r", "o", "c", "e", "s", "s", "i", "n", "g", "_", "e", "r", "r", "o", "r">>
SUGGEST_TIMEOUT == <<"V", "i", "d", "e", "o", " ", "p", "r", "o", "c", "e", "s", "s", "i", "n", "g", " ", "t", "i", "m", "e", "d", " ", "o", "u", "t", ".", " ", "T", "r", "y", " ", "w", "i", "t", "h", " ", "a", " ", "s", "h", "o", "r", "t", "e", "r", " ", "v", "i", "d", "e", "o", " ", "(", "<", " ", "2", " ", "m", "i", "n", "u", "t", "e", "s", ")">>
SUGGEST_RETRY == <<"E", "r", "r", "o", "r", " ", "p", "r", "o", "c", "e", "s", "s", "i", "n", "g", " ", "v", "i", "d", "e", "o", ".", " ", "P", "l", "e", "a", "s", "e", " ", "t", "r", "y", " ", "a", "g", "a", "i", "n", " ", "o", "r", " ", "c", "o", "n", "t", "a", "c", "t", " ", "s", "u", "p", "p", "o", "r", "t", ".">>

\* ------------------------------------------- messages set by the runtime
\* JSON.parse of an empty body (req.json(), mlResponse.json())
JSON_SYNTAX_ERROR == <<"U", "n", "e", "x", "p", "e", "c", "t", "e", "d", " ", "e", "n", "d", " ", "o", "f", " ", "J", "S", "O", "N", " ", "i", "n", "p", "u", "t">>
\* const { videoUrl } = null
DESTRUCTURE_NULL == <<"C", "a", "n", "n", "o", "t", " ", "d", "e", "s", "t", "r", "u", "c", "t", "u", "r", "e", " ", "p", "r", "o", "p", "e", "r", "t", "y", " ", "'", "v", "i", "d", "e", "o", "U", "r", "l", "'", " ", "o", "f", " ", "'", "(", "i", "n", "t", "e", "r", "m", "e", "d", "i", "a", "t", "e", " ", "v", "a", "l", "u", "e", ")", "'", " ", "a", "s", " ", "i", "t", " ", "i", "s", " ", "n", "u", "l", "l", ".">>
\* prediction.prediction_score with prediction === null
READ_OF_NULL == <<"C", "a", "n", "n", "o", "t", " ", "r", "e", "a", "d", " ", "p", "r", "o", "p", "e", "r", "t", "i", "e", "s", " ", "o", "f", " ", "n", "u", "l", "l", " ", "(", "r", "e", "a", "d", "i", "n", "g", " ", "'", "p", "r", "e", "d", "i", "c", "t", "i", "o", "n", "_", "s", "c", "o", "r", "e", "'", ")">>
\* fetch() rejecting because the service cannot be reached
NETWORK_ERROR == <<"e", "r", "r", "o", "r", " ", "s", "e", "n", "d", "i", "n", "g", " ", "r", "e", "q", "u", "e", "s", "t">>
\* The reason AbortSignal.timeout() aborts with is a DOMException named
\* "TimeoutError" whose message the runtime chooses: Deno's is
\* "Signal timed out.", undici's "The operation was aborted due to timeout".
TimeoutMessages ==
    { <<"S", "i", "g", "n", "a", "l", " ", "t", "i", "m", "e", "d", " ", "o", "u", "t", ".">>,
      <<"T", "h", "e", " ", "o", "p", "e", "r", "a", "t", "i", "o", "n", " ", "w", "a", "s", " ", "a", "b", "o", "r", "t", "e", "d", " ", "d", "u", "e", " ", "t", "o", " ", "t", "i", "m", "e", "o", "u", "t">> }

new_Date_toISOString == <<"2", "0", "2", "4", "-", "0", "1", "-", "0", "1", "T", "0", "0", ":", "0", "0", ":", "0", "0", ".", "0", "0", "0", "Z">>

\* ------------------------------------------------------------------ inputs
\* Deno.env.get("PYTHON_ML_ENDPOINT"): unset, set to "", or set to a URL
Endpoints == {Undefined, Str(<<>>), Str(<<"h", "t", "t", "p", ":", "/", "/", "m", "l">>)}

\* The body of a request or of a downstream reply, as JSON.parse sees it:
\* not JSON at all, the literal null, or an object with these properties
\* (Undefined for a property the object does not have).
InvalidJson == [kind |-> "invalid", videoUrl |-> Undefined,
                prediction_score |-> Undefined, confidence |-> Undefined,
                features_detected |-> Undefined]
NullJson == [InvalidJson EXCEPT !.kind = "null"]
RequestJson(videoUrl) ==
    [InvalidJson EXCEPT !.kind = "object", !.videoUrl = videoUrl]
PredictionJson(score, confidence, features) ==
    [InvalidJson EXCEPT !.kind = "object", !.prediction_score = score,
                        !.confidence = confidence, !.features_detected = features]

NoRequest == [method |-> "", body |-> InvalidJson]

Requests ==
    {[method |-> "OPTIONS", body |-> b] :
        b \in {InvalidJson, RequestJson(Str(<<"v", ".", "m", "p", "4">>))}} \cup
    {[method |-> "POST", body |-> b] :
        b \in {InvalidJson, NullJson} \cup
              {RequestJson(u) : u \in {Undefined, Str(<<>>), Str(<<"v", ".", "m", "p", "4">>)}}}

\* HTTP statuses the ML service answers with
DownstreamStatuses == {200, 404, 500}

\* Body texts of a non-success reply
ErrorTexts == {<<>>, <<"m", "o", "d", "e", "l", " ", "c", "r", "a", "s", "h", "e", "d">>, <<"g", "a", "t", "e", "w", "a", "y", " ", "t", "i", "m", "e", "o", "u", "t">>, <<"a", "b", "o", "r", "t", "e", "d">>}

ScoreValues == {Undefined, Str(<<"5", "0">>), Num(-100), Num(0), Num(4520),
                Num(10000), Num(15000)}
ConfidenceValues == {Undefined, Num(0), Num(90), Num(150)}
FeatureValues == {Undefined, Obj({}), Obj({<<"eye_contact_frequency", 50>>})}

\* Bodies of a success reply
PredictionBodies ==
    {InvalidJson, NullJson} \cup
    {PredictionJson(p, c, f) :
        p \in ScoreValues, c \in ConfidenceValues, f \in FeatureValues}

\* --------------------------------------------------------- handler's logic
\* new Response(null, ...): a response without a body
NullBody == [f \in {} |-> Undefined]
NoResponse == [status |-> 0, body |-> NullBody]

\* new Error(message), and every error object the runtime throws here
Error(message) == [isError |-> TRUE, message |-> message]

\* if (req.method === 'OPTIONS') return new Response(null, {status: 200})
OptionsResponse == [status |-> 200, body |-> NullBody]

\* if (!videoUrl) return 400 {error: 'videoUrl is required'}
VideoUrlRequiredResponse ==
    [status |-> 400, body |-> [error |-> Str(VIDEO_URL_REQUIRED)]]

\* if (!PYTHON_ML_ENDPOINT) return 503 {error, instructions}
NotConfiguredResponse ==
    [status |-> 503,
     body |-> [error |-> Str(NOT_CONFIGURED), instructions |-> Str(INSTRUCTIONS)]]

\* errorMessage.includes('timeout') || errorMessage.includes('aborted')
isTimeout(errorMessage) ==
    Includes(errorMessage, TIMEOUT_WORD) \/ Includes(errorMessage, ABORTED_WORD)

\* Mutant of CatchResponse: the catch block's response is built without its
\* `status`, so that it goes out with the default status 200.
CatchResponse_DefaultStatus(error) ==
    LET errorMessage == IF error.isError THEN error.message ELSE UNKNOWN_ERROR
    IN  [status |-> 200,
         body |-> [error |-> Str(errorMessage),
                   type |-> Str(IF isTimeout(errorMessage)
                                THEN TYPE_TIMEOUT ELSE TYPE_PROCESSING_ERROR),
                   suggestion |-> Str(IF isTimeout(errorMessage)
                                      THEN SUGGEST_TIMEOUT ELSE SUGGEST_RETRY)]]

\* The catch block: the response built from the error caught.
CatchResponse(error) ==
    LET errorMessage == IF error.isError THEN error.message ELSE UNKNOWN_ERROR
    IN  [status |-> IF isTimeout(errorMessage) THEN 504 ELSE 500,
         body |-> [error |-> Str(errorMessage),
                   type |-> Str(IF isTimeout(errorMessage)
                                THEN TYPE_TIMEOUT ELSE TYPE_PROCESSING_ERROR),
                   suggestion |-> Str(IF isTimeout(errorMessage)
                                      THEN SUGGEST_TIMEOUT ELSE SUGGEST_RETRY)]]

\* mlResponse.ok
Ok(status) == status \in 200..299

\* new Error(`ML service returned ${mlResponse.status}: ${errorText}`)
UpstreamError(status, errorText) ==
    Error(ML_SERVICE_RETURNED \o Digits(status) \o COLON_SPACE \o errorText)

\* Mutant of InvalidPredictionScore: the upper bound is not checked.
InvalidPredictionScore_NoUpperBound(prediction) ==
    \/ TypeOf(prediction.prediction_score) # "number"
    \/ prediction.prediction_score.n < MIN_PREDICTION_SCORE

\* typeof prediction.prediction_score !== 'number' ||
\* prediction.prediction_score < 0 || prediction.prediction_score > 100
InvalidPredictionScore(prediction) ==
    \/ TypeOf(prediction.prediction_score) # "number"
    \/ prediction.prediction_score.n < MIN_PREDICTION_SCORE
    \/ prediction.prediction_score.n > MAX_PREDICTION_SCORE

\* The success response built from the parsed prediction.
SuccessResponse(prediction) ==
    [status |-> 200,
     body |-> [prediction_score |-> prediction.prediction_score,
               confidence |-> OrElse(prediction.confidence, Num(DEFAULT_CONFIDENCE)),
               features_detected |-> OrElse(prediction.features_detected, Obj({})),
               timestamp |-> Str(new_Date_toISOString)]]

\* Mutant of BeforeFetch: the endpoint is tested with `=== undefined`, so
\* that an endpoint set to the empty string counts as configured.
BeforeFetch_EndpointUndefinedOnly(r, endpoint) ==
    IF r.method = "OPTIONS" THEN OptionsResponse
    ELSE IF r.body.kind = "invalid" THEN CatchResponse(Error(JSON_SYNTAX_ERROR))
    ELSE IF r.body.kind = "null" THEN CatchResponse(Error(DESTRUCTURE_NULL))
    ELSE IF Falsy(r.body.videoUrl) THEN VideoUrlRequiredResponse
    ELSE IF endpoint = Undefined THEN NotConfiguredResponse
    ELSE NoResponse

\* Mutant of BeforeFetch: the endpoint is checked before the videoUrl.
BeforeFetch_EndpointFirst(r, endpoint) ==
    IF r.method = "OPTIONS" THEN OptionsResponse
    ELSE IF r.body.kind = "invalid" THEN CatchResponse(Error(JSON_SYNTAX_ERROR))
    ELSE IF r.body.kind = "null" THEN CatchResponse(Error(DESTRUCTURE_NULL))
    ELSE IF Falsy(endpoint) THEN NotConfiguredResponse
    ELSE IF Falsy(r.body.videoUrl) THEN VideoUrlRequiredResponse
    ELSE NoResponse

\* Mutant of BeforeFetch: the body is parsed before the method is looked at.
BeforeFetch_ParseFirst(r, endpoint) ==
    IF r.body.kind = "invalid" THEN CatchResponse(Error(JSON_SYNTAX_ERROR))
    ELSE IF r.body.kind = "null" THEN CatchResponse(Error(DESTRUCTURE_NULL))
    ELSE IF r.method = "OPTIONS" THEN OptionsResponse
    ELSE IF Falsy(r.body.videoUrl) THEN VideoUrlRequiredResponse
    ELSE IF Falsy(endpoint) THEN NotConfiguredResponse
    ELSE NoResponse

\* The handler from its entry to the fetch: the response it returns before
\* any downstream call, or NoResponse when it goes on to call fetch.
BeforeFetch(r, endpoint) ==
    IF r.method = "OPTIONS" THEN OptionsResponse
    ELSE IF r.body.kind = "invalid" THEN CatchResponse(Error(JSON_SYNTAX_ERROR))
    ELSE IF r.body.kind = "null" THEN CatchResponse(Error(DESTRUCTURE_NULL))
    ELSE IF Falsy(r.body.videoUrl) THEN VideoUrlRequiredResponse
    ELSE IF Falsy(endpoint) THEN NotConfiguredResponse
    ELSE NoResponse

\* The handler after `await mlResponse.json()` settled with `body`.
AfterJson(body) ==
    IF body.kind = "invalid" THEN CatchResponse(Error(JSON_SYNTAX_ERROR))
    ELSE IF body.kind = "null" THEN CatchResponse(Error(READ_OF_NULL))
    ELSE IF InvalidPredictionScore(body) THEN CatchResponse(Error(INVALID_SCORE))
    ELSE SuccessResponse(body)

\* ------------------------------------------------------------------- state
VARIABLES
    PYTHON_ML_ENDPOINT, \* the environment variable, read-only after startup
    pc,          \* per invocation: "idle", "fetch", "text", "json", "done"
    req,         \* per invocation: the request received
    fetchCalls,  \* per invocation: the downstream requests issued, in order
    mlResponse,  \* per invocation: the downstream reply received so far
    elapsed,     \* per invocation: ms since its AbortSignal.timeout started
    aborted,     \* per invocation: its timeout signal has aborted the call
    responses    \* per invocation: the responses returned, in order

proxyVars == <<PYTHON_ML_ENDPOINT, pc, req, fetchCalls, mlResponse, elapsed,
               aborted, responses>>

\* The state of the Questionnaire component (src/components/Questionnaire.tsx)
VARIABLES
    role,              \* prop: "individual", "parent" or "clinician"
    currentStep,       \* useState(0)
    answers,           \* useState({}): question id -> answer, or "undefined"
    metadata,          \* useState({childName: '', ..., videoPrediction: null})
    clinicianMetadata, \* useState({childName: '', ..., problemsFaced: ''})
    uploading,         \* useState(false)
    predictingVideo,   \* useState(false)
    upload,            \* the running handleVideoUpload: its await, its closure
    stored,            \* number of files put into the assessment-videos bucket
    invoked,           \* bodies of the predict-video invocations made, in order
    lastToast,         \* title of the toast shown last, "" when none
    outcome            \* how the questionnaire ended: onComplete's or onBack's call

questionnaireVars == <<role, currentStep, answers, metadata, clinicianMetadata,
                       uploading, predictingVideo, upload, stored, invoked,
                       lastToast, outcome>>

\* The state of score fusion and of the consumers of its result
VARIABLES
    result             \* the ScoringResult last computed, or NoResult

fusionVars == <<result>>

\* The state of the useAssessmentHistory hook (src/unnamed/part_002) and of
\* the assessment_history table it talks to
VARIABLES
    session,           \* the user supabase.auth.getUser() yields, or NoUser
    table,             \* the rows of assessment_history, in insertion order
    dbCalls,           \* the statements the hook has sent to the table, in order
    history,           \* useState([])
    loading,           \* useState(true)
    save,              \* the saveAssessment calls: their await and arguments
    fetches,           \* the fetchHistory calls: their await and the rows read
    historyToast       \* title of the hook's toast shown last, "" when none

historyVars == <<session, table, dbCalls, history, loading, save, fetches,
                 historyToast>>

\* Everything outside the edge function
clientVars == <<questionnaireVars, fusionVars, historyVars>>

vars == <<proxyVars, questionnaireVars, fusionVars, historyVars>>

NoReply == [status |-> 0, text |-> <<>>, json |-> InvalidJson]

InFlight(i) == pc[i] \in {"fetch", "text", "json"}

\* The edge function deployed with one of `endpoints` in its environment,
\* before any of the invocations `ids` has received its request.
ProxyInit(ids, endpoints) ==
    /\ PYTHON_ML_ENDPOINT \in endpoints
    /\ pc = [i \in ids |-> "idle"]
    /\ req = [i \in ids |-> NoRequest]
    /\ fetchCalls = [i \in ids |-> <<>>]
    /\ mlResponse = [i \in ids |-> NoReply]
    /\ elapsed = [i \in ids |-> 0]
    /\ aborted = [i \in ids |-> FALSE]
    /\ responses = [i \in ids |-> <<>>]

\* ---------------------------------------------------------------------------
\* The questionnaire wizard (src/components/Questionnaire.tsx)
\* ---------------------------------------------------------------------------

Roles == {"individual", "parent", "clinician"}

\* The question bank handed in as the `questions` prop: ids 1..NumQuestions.
Questions == 1..NumQuestions

\* Two of the five answerOptions; "undefined" is a question with no entry in
\* `answers`.
AnswerValues == {"never", "always"}

\* What the user may type into a text field: nothing, or something.
FieldTexts == {"", "x"}

ParentFields == {"childName", "childAge"}

ClinicianFields == {"childName", "childAge", "pronoun", "homeLanguage", "problemsFaced"}

\* A video prediction held in the metadata: the data predict-video returned for
\* the video whose public URL is `video`.
NoPrediction == [video |-> 0]

PredictionFor(publicUrl) == [video |-> publicUrl]

\* useState's initial values.  A public URL is the number of the upload that
\* produced it (Date.now() makes every file path distinct); 0 is ''.  The
\* optional parent fields, which no condition of the component reads, are left
\* out of the record.
InitialMetadata ==
    [childName |-> "", childAge |-> "", videoUrl |-> 0, videoPrediction |-> NoPrediction]

InitialClinicianMetadata == [f \in ClinicianFields |-> ""]

\* The files the user may pick, by size in bytes; NoFile is a cancelled dialog.
NoFile == 0 - 1

Files == {NoFile, MAX_VIDEO_BYTES, MAX_VIDEO_BYTES + 1}

\* What supabase.functions.invoke may come back with.
InvokeReplies == {"error", "data", "noData", "throws"}

\* handleVideoUpload when it is not running.
NoUpload == [pc |-> "idle", metadata |-> InitialMetadata, n |-> 0, exit |-> "none"]

NotEnded == [phase |-> "active", answers |-> [q \in Questions |-> "undefined"],
             metadata |-> "undefined"]

videoStep == IF role = "individual" THEN 0 ELSE 1

firstQuestionStep == IF role = "individual" THEN 1 ELSE 2

totalSteps == IF role = "individual" THEN NumQuestions + 1 ELSE NumQuestions + 2

currentQuestionIndex ==
    IF currentStep < firstQuestionStep THEN 0 - 1 ELSE currentStep - firstQuestionStep

\* questions[currentQuestionIndex], 0 when it is null or undefined
currentQuestion ==
    IF currentQuestionIndex >= 0 /\ currentQuestionIndex < NumQuestions
    THEN currentQuestionIndex + 1
    ELSE 0

\* Mutant of canProceed: a question step does not ask for an answer.
canProceed_QuestionNotRequired ==
    IF currentStep = 0 /\ role = "individual" THEN metadata.videoUrl # 0
    ELSE IF currentStep = 0 /\ role = "parent"
    THEN metadata.childName # "" /\ metadata.childAge # ""
    ELSE IF currentStep = 0
    THEN \A f \in ClinicianFields : clinicianMetadata[f] # ""
    ELSE IF currentStep = videoStep /\ role # "individual" THEN metadata.videoUrl # 0
    ELSE TRUE

canProceed ==
    IF currentStep = 0 /\ role = "individual" THEN metadata.videoUrl # 0
    ELSE IF currentStep = 0 /\ role = "parent"
    THEN metadata.childName # "" /\ metadata.childAge # ""
    ELSE IF currentStep = 0
    THEN \A f \in ClinicianFields : clinicianMetadata[f] # ""
    ELSE IF currentStep = videoStep /\ role # "individual" THEN metadata.videoUrl # 0
    ELSE IF currentStep >= firstQuestionStep /\ currentQuestion # 0
    THEN answers[currentQuestion] # "undefined"
    ELSE TRUE

\* The file input is part of the parent's step 0 form only, and is disabled
\* while a video is uploaded or analysed.
VideoInputEnabled ==
    /\ role = "parent"
    /\ currentStep = 0
    /\ ~(uploading \/ predictingVideo)

metadataToSend ==
    IF role = "parent" THEN metadata
    ELSE IF role = "clinician" THEN clinicianMetadata
    ELSE "undefined"

Active == outcome.phase = "active"

\* The component as first rendered for role r.
QuestionnaireMounted(r) ==
    /\ role = r
    /\ currentStep = 0
    /\ answers = [q \in Questions |-> "undefined"]
    /\ metadata = InitialMetadata
    /\ clinicianMetadata = InitialClinicianMetadata
    /\ uploading = FALSE
    /\ predictingVideo = FALSE
    /\ upload = NoUpload
    /\ stored = {}
    /\ invoked = <<>>
    /\ lastToast = ""
    /\ outcome = NotEnded

\* ---------------------------------------------------------------------------
\* Score fusion (@/utils/scoring, described in spec.md section 4.1) and the
\* readers of its result (src/components/ResultModal.tsx, saveAssessment)
\* ---------------------------------------------------------------------------
\* Scores are integers in hundredths, as in the edge function: 100 is 10000.

MIN_SCORE == 0

MAX_SCORE == 10000

\* Weights of the questionnaire score and of the prediction score, in tenths
QUESTIONNAIRE_WEIGHT == 6

ML_WEIGHT == 4

\* Lower ends of the canonical severity tiers mild, moderate and high
MILD_FROM == 2500

MODERATE_FROM == 4500

HIGH_FROM == 6500

\* Upper ends of the report's first four score bands
REPORT_VERY_LOW_BELOW == 2500

REPORT_LOW_BELOW == 4000

REPORT_MODERATE_BELOW == 6000

REPORT_HIGH_BELOW == 7500

NoVideoPrediction == [present |-> FALSE, prediction_score |-> 0, confidence |-> 0]

VideoPrediction(score, confidence) ==
    [present |-> TRUE, prediction_score |-> score, confidence |-> confidence]

\* Math.round of x thousandths, in hundredths (x >= 0)
round(x) == 100 * ((x + 500) \div 1000)

severity_LowIncludesBoundary(score) ==
    IF score <= MILD_FROM THEN "low"
    ELSE IF score < MODERATE_FROM THEN "mild"
    ELSE IF score < HIGH_FROM THEN "moderate"
    ELSE "high"

\* low [0,25), mild [25,45), moderate [45,65), high [65,100]
severity(score) ==
    IF score < MILD_FROM THEN "low"
    ELSE IF score < MODERATE_FROM THEN "mild"
    ELSE IF score < HIGH_FROM THEN "moderate"
    ELSE "high"

InRange(score) == MIN_SCORE <= score /\ score <= MAX_SCORE

NoResult ==
    [error |-> "none", normalizedScore |-> 0, videoPrediction |-> NoVideoPrediction,
     fusedScore |-> Undefined, severity |-> "none"]

InvalidScoreRange == [NoResult EXCEPT !.error = "InvalidScoreRange"]

fuse_WeightsSwapped(normalizedScore, prediction) ==
    IF ~InRange(normalizedScore)
       \/ (prediction.present /\ ~InRange(prediction.prediction_score))
    THEN InvalidScoreRange
    ELSE IF ~prediction.present
    THEN [error |-> "", normalizedScore |-> normalizedScore,
          videoPrediction |-> prediction, fusedScore |-> Undefined,
          severity |-> severity(normalizedScore)]
    ELSE LET fusedScore == round(ML_WEIGHT * normalizedScore
                                 + QUESTIONNAIRE_WEIGHT * prediction.prediction_score)
         IN  [error |-> "", normalizedScore |-> normalizedScore,
              videoPrediction |-> prediction, fusedScore |-> Num(fusedScore),
              severity |-> severity(fusedScore)]

fuse_WeightedByConfidence(normalizedScore, prediction) ==
    IF ~InRange(normalizedScore)
       \/ (prediction.present /\ ~InRange(prediction.prediction_score))
    THEN InvalidScoreRange
    ELSE IF ~prediction.present
    THEN [error |-> "", normalizedScore |-> normalizedScore,
          videoPrediction |-> prediction, fusedScore |-> Undefined,
          severity |-> severity(normalizedScore)]
    ELSE LET fusedScore ==
                 round(QUESTIONNAIRE_WEIGHT * normalizedScore
                       + (ML_WEIGHT * prediction.prediction_score
                          * prediction.confidence) \div 100)
         IN  [error |-> "", normalizedScore |-> normalizedScore,
              videoPrediction |-> prediction, fusedScore |-> Num(fusedScore),
              severity |-> severity(fusedScore)]

\* fuse(normalizedScore, prediction?)
fuse(normalizedScore, prediction) ==
    IF ~InRange(normalizedScore)
       \/ (prediction.present /\ ~InRange(prediction.prediction_score))
    THEN InvalidScoreRange
    ELSE IF ~prediction.present
    THEN [error |-> "", normalizedScore |-> normalizedScore,
          videoPrediction |-> prediction, fusedScore |-> Undefined,
          severity |-> severity(normalizedScore)]
    ELSE LET fusedScore == round(QUESTIONNAIRE_WEIGHT * normalizedScore
                                 + ML_WEIGHT * prediction.prediction_score)
         IN  [error |-> "", normalizedScore |-> normalizedScore,
              videoPrediction |-> prediction, fusedScore |-> Num(fusedScore),
              severity |-> severity(fusedScore)]

\* The scores fused: every whole questionnaire score, one below and one above
\* the range; prediction scores at the ends, inside and outside the range.
NormalizedScores == {100 * k : k \in 0..100} \cup {0 - 100, 10100}

PredictionScores == {0, 100, 2000, 3000, 5050, 10000, 10100}

Confidences == {0, 75, 90, 100}

Predictions ==
    {NoVideoPrediction}
        \cup {VideoPrediction(s, c) : s \in PredictionScores, c \in Confidences}

\* ResultModal: const finalScore = result.fusedScore || result.normalizedScore
finalScore == OrElse(result.fusedScore, Num(result.normalizedScore)).n

\* ResultModal: {result.fusedScore && (<ML-Enhanced Score panel>)}, and the
\* report's "Score Statistics" under if (result.fusedScore)
ShowsFusedScore == ~Falsy(result.fusedScore)

\* ResultModal: {result.videoPrediction && (<Video Analysis Results>)}
ShowsVideoPrediction == result.videoPrediction.present

\* The band of a final score that picks the recommended next steps, on screen
\* and in the downloaded report
ReportBandOf(score) ==
    IF score < REPORT_VERY_LOW_BELOW THEN "very low"
    ELSE IF score < REPORT_LOW_BELOW THEN "low"
    ELSE IF score < REPORT_MODERATE_BELOW THEN "moderate"
    ELSE IF score < REPORT_HIGH_BELOW THEN "high"
    ELSE "very high"

ReportBand == ReportBandOf(finalScore)

\* ---------------------------------------------------------------------------
\* The assessment history hook (useAssessmentHistory, src/unnamed/part_002)
\* ---------------------------------------------------------------------------

\* Bound: the saveAssessment calls made on one mounted hook
MaxSaves == 2

NoUser == "none"

Users == {NoUser, "u1"}

\* The arguments saveAssessment is called with (result, role, videoUrl): an
\* assessment without a video, one with a video and its prediction, and one
\* whose prediction and scores are all 0.
SaveArguments ==
    {[result |-> fuse(7000, NoVideoPrediction), role |-> "individual",
      videoUrl |-> Undefined],
     [result |-> fuse(7000, VideoPrediction(3000, 90)), role |-> "parent",
      videoUrl |-> Str(<<"v">>)],
     [result |-> fuse(0, VideoPrediction(0, 75)), role |-> "parent",
      videoUrl |-> Str(<<"v">>)]}

\* result.videoPrediction?.prediction_score
prediction_score(r) ==
    IF r.videoPrediction.present THEN Num(r.videoPrediction.prediction_score)
    ELSE Undefined

\* The object saveAssessment hands to insert(), and created_at, which the table
\* sets to now(): clock
Row(user, r, savedRole, videoUrl, clock) ==
    [user_id |-> user,
     role |-> savedRole,
     questionnaire_score |-> r.normalizedScore,
     ml_score |-> OrElse(prediction_score(r), Null),
     fused_score |-> OrElse(r.fusedScore, Num(r.normalizedScore)).n,
     severity |-> r.severity,
     video_url |-> OrElse(videoUrl, Null),
     created_at |-> clock]

\* rows with the newest first: .order('created_at', { ascending: false })
RECURSIVE Descending(_)
Descending(rows) ==
    IF rows = <<>> THEN <<>>
    ELSE LET newest == CHOOSE k \in 1..Len(rows) :
                           \A j \in 1..Len(rows) : rows[j].created_at <= rows[k].created_at
         IN  <<rows[newest]>>
                 \o Descending(SubSeq(rows, 1, newest - 1)
                               \o SubSeq(rows, newest + 1, Len(rows)))

\* select('*') as the row level security policy lets `user` see the table
Visible(user) == SelectSeq(table, LAMBDA row : row.user_id = user)

\* One fetchHistory call waiting for its select; `by` is the saveAssessment
\* call that awaits it, 0 for the one the mount effect made.
FetchStarted(by) == [pc |-> "select", by |-> by, error |-> FALSE, data |-> <<>>]

\* The hook after its first render and its mount effect: fetchHistory has
\* sent its select.
HookMounted(user) ==
    /\ session = user
    /\ table = <<>>
    /\ dbCalls = <<[op |-> "select", by |-> 0]>>
    /\ history = <<>>
    /\ loading = TRUE
    /\ save = <<>>
    /\ fetches = <<FetchStarted(0)>>
    /\ historyToast = ""

Init ==
    /\ ProxyInit(Invocations, Endpoints)
    /\ QuestionnaireMounted("parent")
    /\ result = NoResult
    /\ HookMounted(NoUser)

\* return new Response(...): the invocation ends with this response
Respond(i, response) ==
    /\ pc' = [pc EXCEPT ![i] = "done"]
    /\ responses' = [responses EXCEPT ![i] = Append(@, response)]
    /\ elapsed' = [elapsed EXCEPT ![i] = 0]

\* Lines 25-76: a request arrives and the handler runs up to its first
\* return, or up to `await fetch(PYTHON_ML_ENDPOINT, {...})`.
Receive(i, r) ==
    /\ pc[i] = "idle"
    /\ req' = [req EXCEPT ![i] = r]
    /\ IF BeforeFetch(r, PYTHON_ML_ENDPOINT) # NoResponse
       THEN /\ Respond(i, BeforeFetch(r, PYTHON_ML_ENDPOINT))
            /\ UNCHANGED fetchCalls
       ELSE /\ fetchCalls' = [fetchCalls EXCEPT ![i] =
                  Append(@, [url |-> PYTHON_ML_ENDPOINT.s, method |-> "POST",
                             body |-> [video_url |-> r.body.videoUrl]])]
            /\ pc' = [pc EXCEPT ![i] = "fetch"]
            /\ elapsed' = [elapsed EXCEPT ![i] = 0]
            /\ UNCHANGED responses
    /\ UNCHANGED <<PYTHON_ML_ENDPOINT, mlResponse, aborted>>
    /\ UNCHANGED clientVars

\* Lines 69-78: fetch resolves with the reply's status line and headers;
\* the handler goes on to read the body as text (!ok) or as JSON (ok).
FetchResolves(i, status) ==
    /\ pc[i] = "fetch"
    /\ elapsed[i] < FETCH_TIMEOUT_MS
    /\ mlResponse' = [mlResponse EXCEPT ![i].status = status]
    /\ pc' = [pc EXCEPT ![i] = IF Ok(status) THEN "json" ELSE "text"]
    /\ UNCHANGED <<PYTHON_ML_ENDPOINT, req, fetchCalls, elapsed, aborted, responses>>
    /\ UNCHANGED clientVars

\* Line 69: fetch rejects because the service cannot be reached.
FetchRejects(i) ==
    /\ pc[i] = "fetch"
    /\ elapsed[i] < FETCH_TIMEOUT_MS
    /\ Respond(i, CatchResponse(Error(NETWORK_ERROR)))
    /\ UNCHANGED <<PYTHON_ML_ENDPOINT, req, fetchCalls, mlResponse, aborted>>
    /\ UNCHANGED clientVars

\* Lines 78-82: `await mlResponse.text()` settles; the handler throws the
\* upstream error, which its catch block turns into the response.
TextArrives(i, errorText) ==
    /\ pc[i] = "text"
    /\ elapsed[i] < FETCH_TIMEOUT_MS
    /\ mlResponse' = [mlResponse EXCEPT ![i].text = errorText]
    /\ Respond(i, CatchResponse(UpstreamError(mlResponse[i].status, errorText)))
    /\ UNCHANGED <<PYTHON_ML_ENDPOINT, req, fetchCalls, aborted>>
    /\ UNCHANGED clientVars

\* Lines 84-107: `await mlResponse.json()` settles; the handler validates
\* the prediction and returns the success response, or throws.
JsonArrives(i, body) ==
    /\ pc[i] = "json"
    /\ elapsed[i] < FETCH_TIMEOUT_MS
    /\ mlResponse' = [mlResponse EXCEPT ![i].json = body]
    /\ Respond(i, AfterJson(body))
    /\ UNCHANGED <<PYTHON_ML_ENDPOINT, req, fetchCalls, aborted>>
    /\ UNCHANGED clientVars

\* Mutant of TimeoutFires: the handler answers a timeout by calling the
\* service again.
TimeoutFires_Retry(i, message) ==
    /\ InFlight(i)
    /\ elapsed[i] >= FETCH_TIMEOUT_MS
    /\ aborted' = [aborted EXCEPT ![i] = TRUE]
    /\ fetchCalls' = [fetchCalls EXCEPT ![i] =
          Append(@, [url |-> PYTHON_ML_ENDPOINT.s, method |-> "POST",
                     body |-> [video_url |-> req[i].body.videoUrl]])]
    /\ pc' = [pc EXCEPT ![i] = "fetch"]
    /\ elapsed' = [elapsed EXCEPT ![i] = 0]
    /\ UNCHANGED <<PYTHON_ML_ENDPOINT, req, mlResponse, responses>>
    /\ UNCHANGED clientVars

\* Mutant of TimeoutFires: fetch is called without `signal`, so that no
\* timer ever settles a call the service does not answer.
TimeoutFires_NoSignal(i, message) ==
    /\ FALSE
    /\ UNCHANGED vars

\* Mutant of TimeoutFires: one abort signal is shared by all invocations, so
\* the timer of one aborts every call in flight.
TimeoutFires_SharedSignal(i, message) ==
    /\ InFlight(i)
    /\ elapsed[i] >= FETCH_TIMEOUT_MS
    /\ aborted' = [j \in DOMAIN pc |-> aborted[j] \/ InFlight(j)]
    /\ pc' = [j \in DOMAIN pc |-> IF InFlight(j) THEN "done" ELSE pc[j]]
    /\ responses' = [j \in DOMAIN pc |->
                        IF InFlight(j)
                        THEN Append(responses[j], CatchResponse(Error(message)))
                        ELSE responses[j]]
    /\ elapsed' = [j \in DOMAIN pc |-> IF InFlight(j) THEN 0 ELSE elapsed[j]]
    /\ UNCHANGED <<PYTHON_ML_ENDPOINT, req, fetchCalls, mlResponse>>
    /\ UNCHANGED clientVars

\* Line 75: the 120 s timer of AbortSignal.timeout fires while the call is
\* in flight; the pending await rejects with the signal's reason.
TimeoutFires(i, message) ==
    /\ InFlight(i)
    /\ elapsed[i] >= FETCH_TIMEOUT_MS
    /\ aborted' = [aborted EXCEPT ![i] = TRUE]
    /\ Respond(i, CatchResponse(Error(message)))
    /\ UNCHANGED <<PYTHON_ML_ENDPOINT, req, fetchCalls, mlResponse>>
    /\ UNCHANGED clientVars

\* Time passes for the calls in flight; a timer that is due fires first.
Tick ==
    /\ \E i \in DOMAIN pc : InFlight(i)
    /\ \A i \in DOMAIN pc : InFlight(i) => elapsed[i] < FETCH_TIMEOUT_MS
    /\ elapsed' = [i \in DOMAIN pc |->
                      IF InFlight(i) THEN elapsed[i] + TickMs ELSE elapsed[i]]
    /\ UNCHANGED <<PYTHON_ML_ENDPOINT, pc, req, fetchCalls, mlResponse, aborted,
                   responses>>
    /\ UNCHANGED clientVars

Next ==
    \/ \E i \in Invocations, r \in Requests : Receive(i, r)
    \/ \E i \in Invocations, status \in DownstreamStatuses : FetchResolves(i, status)
    \/ \E i \in Invocations : FetchRejects(i)
    \/ \E i \in Invocations, errorText \in ErrorTexts : TextArrives(i, errorText)
    \/ \E i \in Invocations, body \in PredictionBodies : JsonArrives(i, body)
    \/ \E i \in Invocations, message \in TimeoutMessages : TimeoutFires(i, message)
    \/ Tick

Spec == Init /\ [][Next]_vars

\* The runtime keeps time running and fires a due timer, so every call in
\* flight is eventually settled by a reply or by its timeout.
FairSpec ==
    /\ Spec
    /\ WF_vars(Tick)
    /\ \A i \in Invocations :
          WF_vars(\E message \in TimeoutMessages : TimeoutFires(i, message))

\* ------------------------------------- invocations running side by side
\* Bound: the invocations the runtime serves concurrently
NumConcurrent == 2

ConcurrentInvocations == 1..NumConcurrent

\* Fewer inputs than in Spec, so that every interleaving of the invocations
\* can be enumerated: a request without and one with a videoUrl, a failing
\* and a succeeding reply, a valid and an invalid prediction.
ConcurrentRequests ==
    {[method |-> "POST", body |-> RequestJson(u)] :
        u \in {Undefined, Str(<<"v", ".", "m", "p", "4">>)}}

ConcurrentStatuses == {200, 500}

ConcurrentErrorTexts == {<<"m", "o", "d", "e", "l", " ", "c", "r", "a", "s", "h", "e", "d">>}

ConcurrentBodies ==
    {PredictionJson(Num(4520), Num(90), Undefined),
     PredictionJson(Num(15000), Undefined, Undefined)}

ConcurrentInit ==
    /\ ProxyInit(ConcurrentInvocations, {Undefined, Str(<<"h", "t", "t", "p", ":", "/", "/", "m", "l">>)})
    /\ QuestionnaireMounted("parent")
    /\ result = NoResult
    /\ HookMounted(NoUser)

ConcurrentNext ==
    \/ \E i \in ConcurrentInvocations, r \in ConcurrentRequests : Receive(i, r)
    \/ \E i \in ConcurrentInvocations, status \in ConcurrentStatuses :
           FetchResolves(i, status)
    \/ \E i \in ConcurrentInvocations : FetchRejects(i)
    \/ \E i \in ConcurrentInvocations, errorText \in ConcurrentErrorTexts :
           TextArrives(i, errorText)
    \/ \E i \in ConcurrentInvocations, body \in ConcurrentBodies : JsonArrives(i, body)
    \/ \E i \in ConcurrentInvocations, message \in TimeoutMessages :
           TimeoutFires(i, message)
    \/ Tick

ConcurrentSpec == ConcurrentInit /\ [][ConcurrentNext]_vars

\* ------------------------------------------------ score fusion on its own
\* Everything but the scoring result stays as constructed.
FusionInit ==
    /\ ProxyInit(Invocations, {Undefined})
    /\ QuestionnaireMounted("parent")
    /\ result = NoResult
    /\ HookMounted(NoUser)

\* The page computes the result of a completed assessment and hands it to
\* ResultModal.
ComputeResult(normalizedScore, prediction) ==
    /\ result = NoResult
    /\ result' = fuse(normalizedScore, prediction)
    /\ UNCHANGED <<proxyVars, questionnaireVars, historyVars>>

\* ResultModal's onClose: the result is dropped.
onClose ==
    /\ result # NoResult
    /\ result' = NoResult
    /\ UNCHANGED <<proxyVars, questionnaireVars, historyVars>>

FusionNext ==
    \/ \E normalizedScore \in NormalizedScores, prediction \in Predictions :
           ComputeResult(normalizedScore, prediction)
    \/ onClose

FusionSpec == FusionInit /\ [][FusionNext]_vars

\* ------------------------------------------ the assessment history hook
HistoryInit ==
    /\ ProxyInit(Invocations, {Undefined})
    /\ QuestionnaireMounted("parent")
    /\ result = NoResult
    /\ \E user \in Users : HookMounted(user)

\* saveAssessment(result, role, metadata, videoUrl) up to its first await.
\* The metadata argument goes into the row as it is and is left out.  The
\* page saves one assessment at a time: a call starts when the one before it
\* has returned (the fetchHistory of the mount effect may still be waiting).
SaveAssessment(args) ==
    /\ Len(save) < MaxSaves
    /\ \A k \in DOMAIN save : save[k].pc = "done"
    /\ save' = Append(save, [pc |-> "getUser", result |-> args.result,
                             role |-> args.role, videoUrl |-> args.videoUrl,
                             error |-> ""])
    /\ UNCHANGED <<session, table, dbCalls, history, loading, fetches, historyToast>>
    /\ UNCHANGED <<proxyVars, questionnaireVars, fusionVars>>

\* Mutant of SaveGetUserResolves: the missing user is not looked at.
SaveGetUserResolves_NoUserCheck(k) ==
    /\ save[k].pc = "getUser"
    /\ dbCalls' = Append(dbCalls, [op |-> "insert", by |-> k])
    /\ save' = [save EXCEPT ![k].pc = "insert"]
    /\ UNCHANGED <<session, table, history, loading, fetches, historyToast>>
    /\ UNCHANGED <<proxyVars, questionnaireVars, fusionVars>>

\* getUser() resolves in call k: without a user the call throws, toasts and
\* ends; with one it sends the insert.
SaveGetUserResolves(k) ==
    /\ save[k].pc = "getUser"
    /\ IF session = NoUser
       THEN /\ save' = [save EXCEPT ![k].pc = "done",
                                     ![k].error = "User not authenticated"]
            /\ historyToast' = "Error saving assessment"
            /\ UNCHANGED dbCalls
       ELSE /\ dbCalls' = Append(dbCalls, [op |-> "insert", by |-> k])
            /\ save' = [save EXCEPT ![k].pc = "insert"]
            /\ UNCHANGED historyToast
    /\ UNCHANGED <<session, table, history, loading, fetches>>
    /\ UNCHANGED <<proxyVars, questionnaireVars, fusionVars>>

\* The insert of call k is answered: the table took the row and the call goes
\* on to `await fetchHistory()`, or the table refused it and the call toasts.
InsertResolves(k, ok) ==
    /\ save[k].pc = "insert"
    /\ IF ok
       THEN /\ table' = Append(table, Row(session, save[k].result, save[k].role,
                                          save[k].videoUrl, Len(table) + 1))
            /\ dbCalls' = Append(dbCalls, [op |-> "select", by |-> k])
            /\ fetches' = Append(fetches, FetchStarted(k))
            /\ save' = [save EXCEPT ![k].pc = "fetch"]
            /\ UNCHANGED historyToast
       ELSE /\ save' = [save EXCEPT ![k].pc = "done", ![k].error = "insert failed"]
            /\ historyToast' = "Error saving assessment"
            /\ UNCHANGED <<table, dbCalls, fetches>>
    /\ UNCHANGED <<session, history, loading>>
    /\ UNCHANGED <<proxyVars, questionnaireVars, fusionVars>>

\* The table runs the select of fetchHistory call f.
SelectExecutes(f, ok) ==
    /\ fetches[f].pc = "select"
    /\ fetches' = [fetches EXCEPT ![f].pc = "answered",
                                  ![f].error = ~ok,
                                  ![f].data = IF ok THEN Descending(Visible(session))
                                              ELSE <<>>]
    /\ UNCHANGED <<session, table, dbCalls, history, loading, save, historyToast>>
    /\ UNCHANGED <<proxyVars, questionnaireVars, fusionVars>>

\* fetchHistory call f gets its answer: setHistory(data || []) or the error
\* toast, then setLoading(false); the saveAssessment call awaiting it returns.
SelectResolves(f) ==
    /\ fetches[f].pc = "answered"
    /\ fetches' = [fetches EXCEPT ![f].pc = "done"]
    /\ IF fetches[f].error
       THEN /\ historyToast' = "Error fetching history"
            /\ UNCHANGED history
       ELSE /\ history' = fetches[f].data
            /\ UNCHANGED historyToast
    /\ loading' = FALSE
    /\ save' = IF fetches[f].by = 0 THEN save
               ELSE [save EXCEPT ![fetches[f].by].pc = "done"]
    /\ UNCHANGED <<session, table, dbCalls>>
    /\ UNCHANGED <<proxyVars, questionnaireVars, fusionVars>>

HistoryNext ==
    \/ \E args \in SaveArguments : SaveAssessment(args)
    \/ \E k \in DOMAIN save : SaveGetUserResolves(k)
    \/ \E k \in DOMAIN save, ok \in BOOLEAN : InsertResolves(k, ok)
    \/ \E f \in DOMAIN fetches, ok \in BOOLEAN : SelectExecutes(f, ok)
    \/ \E f \in DOMAIN fetches : SelectResolves(f)

HistorySpec == HistoryInit /\ [][HistoryNext]_vars

\* ------------------------------------------------ the questionnaire wizard
QuestionnaireInit ==
    /\ ProxyInit(Invocations, {Undefined})
    /\ \E r \in Roles : QuestionnaireMounted(r)
    /\ result = NoResult
    /\ HookMounted(NoUser)

\* onChange of a text field of the parent's form (step 0):
\* setMetadata({ ...metadata, [field]: e.target.value })
SetMetadata(field, value) ==
    /\ Active
    /\ role = "parent" /\ currentStep = 0
    /\ metadata' = [metadata EXCEPT ![field] = value]
    /\ UNCHANGED <<role, currentStep, answers, clinicianMetadata, uploading,
                   predictingVideo, upload, stored, invoked, lastToast, outcome>>
    /\ UNCHANGED <<proxyVars, fusionVars, historyVars>>

\* onChange of a text field of the clinician's form (step 0)
SetClinicianMetadata(field, value) ==
    /\ Active
    /\ role = "clinician" /\ currentStep = 0
    /\ clinicianMetadata' = [clinicianMetadata EXCEPT ![field] = value]
    /\ UNCHANGED <<role, currentStep, answers, metadata, uploading,
                   predictingVideo, upload, stored, invoked, lastToast, outcome>>
    /\ UNCHANGED <<proxyVars, fusionVars, historyVars>>

\* handleVideoUpload has returned by way `exit`; its closure is gone.
Returned(exit) == [NoUpload EXCEPT !.n = upload.n, !.exit = exit]

\* Mutant of handleVideoUpload: setUploading(true) is left out, so the file
\* input stays enabled while the handler runs.
handleVideoUpload_UploadingNotSet(file) ==
    /\ Active
    /\ VideoInputEnabled
    /\ IF file = NoFile
       THEN UNCHANGED <<upload, lastToast>>
       ELSE IF file > MAX_VIDEO_BYTES
       THEN /\ lastToast' = "File too large"
            /\ upload' = Returned("tooLarge")
       ELSE /\ upload.n < MaxUploads
            /\ upload' = [pc |-> "getUser", metadata |-> metadata,
                          n |-> upload.n + 1, exit |-> "running"]
            /\ UNCHANGED lastToast
    /\ UNCHANGED <<role, currentStep, answers, metadata, clinicianMetadata,
                   uploading, predictingVideo, stored, invoked, outcome>>
    /\ UNCHANGED <<proxyVars, fusionVars, historyVars>>

\* Lines 76-90: onChange of the file input; handleVideoUpload runs up to
\* `await supabase.auth.getUser()`, keeping the metadata of this render.
handleVideoUpload(file) ==
    /\ Active
    /\ VideoInputEnabled
    /\ IF file = NoFile
       THEN UNCHANGED <<uploading, upload, lastToast>>
       ELSE IF file > MAX_VIDEO_BYTES
       THEN /\ lastToast' = "File too large"
            /\ upload' = Returned("tooLarge")
            /\ UNCHANGED uploading
       ELSE /\ upload.n < MaxUploads
            /\ uploading' = TRUE
            /\ upload' = [pc |-> "getUser", metadata |-> metadata,
                          n |-> upload.n + 1, exit |-> "running"]
            /\ UNCHANGED lastToast
    /\ UNCHANGED <<role, currentStep, answers, metadata, clinicianMetadata,
                   predictingVideo, stored, invoked, outcome>>
    /\ UNCHANGED <<proxyVars, fusionVars, historyVars>>

\* Lines 90-105: getUser() resolves, with a user or without one.
UploadGetUserResolves(loggedIn) ==
    /\ upload.pc = "getUser"
    /\ IF loggedIn
       THEN /\ upload' = [upload EXCEPT !.pc = "upload"]
            /\ UNCHANGED <<uploading, lastToast>>
       ELSE /\ lastToast' = "Error"
            /\ uploading' = FALSE
            /\ upload' = Returned("noUser")
    /\ UNCHANGED <<role, currentStep, answers, metadata, clinicianMetadata,
                   predictingVideo, stored, invoked, outcome>>
    /\ UNCHANGED <<proxyVars, fusionVars, historyVars>>

\* Mutant of StorageUploadResolves: predict-video is invoked whether or not
\* the storage upload succeeded.
StorageUploadResolves_InvokesAnyway(ok) ==
    /\ upload.pc = "upload"
    /\ IF ok
       THEN /\ stored' = stored \cup {upload.n}
            /\ metadata' = [upload.metadata EXCEPT !.videoUrl = upload.n]
            /\ lastToast' = "Success"
            /\ UNCHANGED uploading
       ELSE /\ lastToast' = "Upload failed"
            /\ UNCHANGED <<metadata, stored, uploading>>
    /\ predictingVideo' = TRUE
    /\ invoked' = Append(invoked, [videoUrl |-> upload.n])
    /\ upload' = [upload EXCEPT !.pc = "invoke"]
    /\ UNCHANGED <<role, currentStep, answers, clinicianMetadata, outcome>>
    /\ UNCHANGED <<proxyVars, fusionVars, historyVars>>

\* Lines 104-130: the storage upload resolves.  On an error the handler
\* toasts and returns; otherwise it records the public URL in the metadata it
\* captured, and goes on to invoke predict-video with that URL.
StorageUploadResolves(ok) ==
    /\ upload.pc = "upload"
    /\ IF ok
       THEN /\ stored' = stored \cup {upload.n}
            /\ metadata' = [upload.metadata EXCEPT !.videoUrl = upload.n]
            /\ lastToast' = "Success"
            /\ predictingVideo' = TRUE
            /\ invoked' = Append(invoked, [videoUrl |-> upload.n])
            /\ upload' = [upload EXCEPT !.pc = "invoke"]
            /\ UNCHANGED uploading
       ELSE /\ lastToast' = "Upload failed"
            /\ uploading' = FALSE
            /\ upload' = Returned("uploadError")
            /\ UNCHANGED <<metadata, predictingVideo, stored, invoked>>
    /\ UNCHANGED <<role, currentStep, answers, clinicianMetadata, outcome>>
    /\ UNCHANGED <<proxyVars, fusionVars, historyVars>>

\* Mutant of InvokeResolves: the flags are reset after a prediction only, not
\* in a finally block and after it.
InvokeResolves_NoFinally(reply) ==
    /\ upload.pc = "invoke"
    /\ IF reply = "data"
       THEN /\ metadata' = [metadata EXCEPT !.videoPrediction = PredictionFor(upload.n)]
            /\ lastToast' = "Video Analyzed"
            /\ predictingVideo' = FALSE
            /\ uploading' = FALSE
       ELSE /\ lastToast' = IF reply = "error" THEN "Analysis Warning" ELSE lastToast
            /\ UNCHANGED <<metadata, predictingVideo, uploading>>
    /\ upload' = Returned(CASE reply = "error" -> "predictionError"
                            [] reply = "data" -> "analyzed"
                            [] reply = "noData" -> "noData"
                            [] reply = "throws" -> "predictionThrew")
    /\ UNCHANGED <<role, currentStep, answers, clinicianMetadata, stored, invoked,
                   outcome>>
    /\ UNCHANGED <<proxyVars, fusionVars, historyVars>>

\* Lines 127-153: supabase.functions.invoke settles: with an error (toast),
\* with data (the prediction goes into the metadata, by a functional update),
\* with neither, or by throwing (logged); finally setPredictingVideo(false),
\* then setUploading(false).
InvokeResolves(reply) ==
    /\ upload.pc = "invoke"
    /\ IF reply = "data"
       THEN /\ metadata' = [metadata EXCEPT !.videoPrediction = PredictionFor(upload.n)]
            /\ lastToast' = "Video Analyzed"
       ELSE /\ lastToast' = IF reply = "error" THEN "Analysis Warning" ELSE lastToast
            /\ UNCHANGED metadata
    /\ predictingVideo' = FALSE
    /\ uploading' = FALSE
    /\ upload' = Returned(CASE reply = "error" -> "predictionError"
                            [] reply = "data" -> "analyzed"
                            [] reply = "noData" -> "noData"
                            [] reply = "throws" -> "predictionThrew")
    /\ UNCHANGED <<role, currentStep, answers, clinicianMetadata, stored, invoked,
                   outcome>>
    /\ UNCHANGED <<proxyVars, fusionVars, historyVars>>

\* Lines 156-158: an answer option of the question shown is chosen.
handleAnswer(value) ==
    /\ Active
    /\ currentQuestion # 0
    /\ answers' = [answers EXCEPT ![currentQuestion] = value]
    /\ UNCHANGED <<role, currentStep, metadata, clinicianMetadata, uploading,
                   predictingVideo, upload, stored, invoked, lastToast, outcome>>
    /\ UNCHANGED <<proxyVars, fusionVars, historyVars>>

\* Mutant of handleNext: the last step is taken to be the one after
\* totalSteps.
handleNext_OneStepFurther ==
    /\ Active
    /\ canProceed
    /\ IF currentStep = totalSteps + 1
       THEN /\ outcome' = [phase |-> "completed", answers |-> answers,
                           metadata |-> metadataToSend]
            /\ UNCHANGED currentStep
       ELSE /\ currentStep' = currentStep + 1
            /\ UNCHANGED outcome
    /\ UNCHANGED <<role, answers, metadata, clinicianMetadata, uploading,
                   predictingVideo, upload, stored, invoked, lastToast>>
    /\ UNCHANGED <<proxyVars, fusionVars, historyVars>>

\* Lines 160-170: the Next / Complete button, enabled when canProceed().
\* (Reading the next question aloud changes nothing here.)
handleNext ==
    /\ Active
    /\ canProceed
    /\ IF currentStep = totalSteps
       THEN /\ outcome' = [phase |-> "completed", answers |-> answers,
                           metadata |-> metadataToSend]
            /\ UNCHANGED currentStep
       ELSE /\ currentStep' = currentStep + 1
            /\ UNCHANGED outcome
    /\ UNCHANGED <<role, answers, metadata, clinicianMetadata, uploading,
                   predictingVideo, upload, stored, invoked, lastToast>>
    /\ UNCHANGED <<proxyVars, fusionVars, historyVars>>

\* Lines 172-178: the Back / Previous buttons.
handlePrevious ==
    /\ Active
    /\ IF currentStep > 1
       THEN /\ currentStep' = currentStep - 1
            /\ UNCHANGED outcome
       ELSE /\ outcome' = [NotEnded EXCEPT !.phase = "left"]
            /\ UNCHANGED currentStep
    /\ UNCHANGED <<role, answers, metadata, clinicianMetadata, uploading,
                   predictingVideo, upload, stored, invoked, lastToast>>
    /\ UNCHANGED <<proxyVars, fusionVars, historyVars>>

QuestionnaireNext ==
    \/ \E field \in ParentFields, value \in FieldTexts : SetMetadata(field, value)
    \/ \E field \in ClinicianFields, value \in FieldTexts :
           SetClinicianMetadata(field, value)
    \/ \E file \in Files : handleVideoUpload(file)
    \/ \E loggedIn \in BOOLEAN : UploadGetUserResolves(loggedIn)
    \/ \E ok \in BOOLEAN : StorageUploadResolves(ok)
    \/ \E reply \in InvokeReplies : InvokeResolves(reply)
    \/ \E value \in AnswerValues : handleAnswer(value)
    \/ handleNext
    \/ handlePrevious

QuestionnaireSpec == QuestionnaireInit /\ [][QuestionnaireNext]_vars

\* A user who goes forward: fields are filled in and not emptied, Previous
\* is not pressed; such a user answers the question shown and presses Next
\* when it is enabled.
ForwardNext ==
    \/ \E field \in ParentFields : SetMetadata(field, "x")
    \/ \E field \in ClinicianFields : SetClinicianMetadata(field, "x")
    \/ \E file \in Files : handleVideoUpload(file)
    \/ \E loggedIn \in BOOLEAN : UploadGetUserResolves(loggedIn)
    \/ \E ok \in BOOLEAN : StorageUploadResolves(ok)
    \/ \E reply \in InvokeReplies : InvokeResolves(reply)
    \/ \E value \in AnswerValues : handleAnswer(value)
    \/ handleNext

ForwardSpec ==
    /\ QuestionnaireInit
    /\ [][ForwardNext]_vars
    /\ \A field \in ParentFields : WF_vars(SetMetadata(field, "x"))
    /\ WF_vars(\E value \in AnswerValues : handleAnswer(value))
    /\ WF_vars(handleNext)

\* ------------------------------------------------------------ observations
Done(i) == pc[i] = "done"
\* The response of a finished invocation.
Response(i) == responses[i][1]
Has(body, field) == field \in DOMAIN body
\* The request is a POST whose JSON body is an object.
PostOfObject(i) == req[i].method = "POST" /\ req[i].body.kind = "object"
\* The invocation finished after reading the whole body of a non-success reply.
ReadErrorText(i) ==
    Done(i) /\ ~aborted[i] /\ mlResponse[i].status # 0 /\ ~Ok(mlResponse[i].status)
\* The invocation finished after reading the whole body of a success reply.
ReadJson(i) == Done(i) /\ ~aborted[i] /\ Ok(mlResponse[i].status)
\* The invocation returned the success response of a prediction.
Success(i) == Done(i) /\ req[i].method = "POST" /\ Response(i).status = 200

\* ================================================================ claims

\* C1: a POST with a non-empty videoUrl while PYTHON_ML_ENDPOINT is not
\* configured (unset or empty) is answered 503 with an error and an
\* instructions field, and the invocation makes no downstream fetch call.
C1_NotConfiguredIs503WithoutFetch ==
    \A i \in Invocations :
        (PostOfObject(i) /\ ~Falsy(req[i].body.videoUrl) /\ Falsy(PYTHON_ML_ENDPOINT))
        => /\ Done(i)
           /\ Len(responses[i]) = 1
           /\ Response(i).status = 503
           /\ Has(Response(i).body, "error")
           /\ Has(Response(i).body, "instructions")
           /\ Len(fetchCalls[i]) = 0

C1_Witness ==
    \E i \in Invocations :
        /\ PostOfObject(i) /\ req[i].body.videoUrl = Str(<<"v", ".", "m", "p", "4">>)
        /\ PYTHON_ML_ENDPOINT = Str(<<>>)
        /\ Done(i) /\ Response(i).status = 503

\* C2 (as claimed): whenever the 120 s timer aborts the in-flight call, the
\* response has status 504 and type "timeout", never 500 "processing_error".
C2_TimeoutIs504 ==
    \A i \in Invocations :
        (Done(i) /\ aborted[i])
        => /\ Response(i).status = 504
           /\ Response(i).body.type = Str(<<"t", "i", "m", "e", "o", "u", "t">>)

\* C3 (as claimed): every non-success downstream status s with body text b
\* ends in status 500, type "processing_error", with an error message that
\* contains s and b, whatever b is.
C3_UpstreamErrorIs500 ==
    \A i \in Invocations :
        ReadErrorText(i)
        => /\ Response(i).status = 500
           /\ Response(i).body.type = Str(<<"p", "r", "o", "c", "e", "s", "s", "i", "n", "g", "_", "e", "r", "r", "o", "r">>)
           /\ Includes(Response(i).body.error.s, Digits(mlResponse[i].status))
           /\ Includes(Response(i).body.error.s, mlResponse[i].text)

C5_SuppliedConfidenceIsKept ==
    \A i \in Invocations :
        Success(i)
        => /\ Response(i).body.confidence =
                 IF mlResponse[i].json.confidence = Undefined
                 THEN Num(75) ELSE mlResponse[i].json.confidence
           /\ Response(i).body.features_detected =
                 IF mlResponse[i].json.features_detected = Undefined
                 THEN Obj({}) ELSE mlResponse[i].json.features_detected

\* C6 (as claimed): the confidence of every success response is a number
\* within [0, 1], whatever the downstream service sent.
C6_ConfidenceInUnitInterval ==
    \A i \in Invocations :
        Success(i)
        => /\ Response(i).body.confidence.t = "number"
           /\ Response(i).body.confidence.n >= 0
           /\ Response(i).body.confidence.n <= 100

C8_AtMostOneFetch ==
    \A i \in Invocations :
        /\ Len(fetchCalls[i]) <= 1
        /\ (Done(i) /\ (aborted[i] \/ mlResponse[i].status # 0))
           => Len(fetchCalls[i]) = 1

C8_Witness ==
    \E i \in Invocations :
        /\ Done(i) /\ aborted[i]
        /\ Len(fetchCalls[i]) = 1

\* The state of a call in the terms of the per-call state machine
\* Idle -> Dispatched -> {Succeeded | TimedOut | UpstreamFailed | PayloadInvalid};
\* "Answered" is a call that returned before dispatching anything (OPTIONS,
\* 400, 503, or a request body that cannot be read).
CallState(i) ==
    IF pc[i] = "idle" THEN "Idle"
    ELSE IF InFlight(i) THEN "Dispatched"
    ELSE IF fetchCalls[i] = <<>> THEN "Answered"
    ELSE IF aborted[i] THEN "TimedOut"
    ELSE IF Response(i).status = 200 THEN "Succeeded"
    ELSE IF ReadJson(i) /\ mlResponse[i].json.kind = "object" THEN "PayloadInvalid"
    ELSE "UpstreamFailed"

TerminalStates == {"Succeeded", "TimedOut", "UpstreamFailed", "PayloadInvalid"}

\* C9: a call that dispatches a downstream request moves Idle -> Dispatched
\* -> one of the four terminal states in one step; a terminal state is never
\* left and nothing more is sent or returned in it; a call has returned
\* exactly one response once it has ended and none before; and every
\* dispatched call eventually reaches a terminal state.
C9_CallStateMachine ==
    /\ [][\A i \in Invocations :
            /\ CallState(i) = "Idle"
               => CallState(i)' \in {"Idle", "Dispatched", "Answered"}
            /\ CallState(i) = "Dispatched"
               => CallState(i)' \in {"Dispatched"} \cup TerminalStates
            /\ CallState(i) \in TerminalStates \cup {"Answered"}
               => /\ CallState(i)' = CallState(i)
                  /\ responses'[i] = responses[i]
                  /\ fetchCalls'[i] = fetchCalls[i]]_vars
    /\ [](\A i \in Invocations :
            Len(responses[i]) =
               IF CallState(i) \in TerminalStates \cup {"Answered"} THEN 1 ELSE 0)
    /\ \A i \in Invocations :
          (CallState(i) = "Dispatched") ~> (CallState(i) \in TerminalStates)

C9_Witness ==
    \E i \in Invocations :
        /\ CallState(i) = "TimedOut"
        /\ Len(fetchCalls[i]) = 1
        /\ Len(responses[i]) = 1

\* The invocation read a downstream success body with a valid prediction.
ValidPrediction(i) ==
    /\ ReadJson(i)
    /\ mlResponse[i].json.kind = "object"
    /\ mlResponse[i].json.prediction_score.t = "number"
    /\ mlResponse[i].json.prediction_score.n >= 0
    /\ mlResponse[i].json.prediction_score.n <= 10000

\* C10 (as claimed): every failure response carries a type tag together
\* with a human-readable message.
C10_EveryFailureCarriesType ==
    \A i \in Invocations :
        (Done(i) /\ req[i].method = "POST" /\ ~ValidPrediction(i))
        => /\ Has(Response(i).body, "error")
           /\ Has(Response(i).body, "type")

\* C10 (amended): every POST that does not end with a valid prediction is
\* answered once, with status 400, 503, 504 or 500 and a JSON object that
\* carries a non-empty error message; exactly the 504 and 500 responses
\* carry a type tag ("timeout", "processing_error") and a suggestion, the
\* 503 carries instructions, and no such call is answered 200.
C10_EveryFailureIsStructuredError ==
    \A i \in Invocations :
        (Done(i) /\ req[i].method = "POST" /\ ~ValidPrediction(i))
        => /\ Len(responses[i]) = 1
           /\ Response(i).status \in {400, 503, 504, 500}
           /\ Has(Response(i).body, "error")
           /\ Response(i).body.error.t = "string"
           /\ Response(i).body.error.s # <<>>
           /\ Has(Response(i).body, "type") <=> Response(i).status \in {504, 500}
           /\ Response(i).status = 504
              => /\ Response(i).body.type = Str(<<"t", "i", "m", "e", "o", "u", "t">>)
                 /\ Has(Response(i).body, "suggestion")
           /\ Response(i).status = 500
              => /\ Response(i).body.type = Str(<<"p", "r", "o", "c", "e", "s", "s", "i", "n", "g", "_", "e", "r", "r", "o", "r">>)
                 /\ Has(Response(i).body, "suggestion")
           /\ Response(i).status = 503 => Has(Response(i).body, "instructions")

C10_Witness ==
    \E i \in Invocations :
        /\ Done(i) /\ req[i].method = "POST" /\ ~ValidPrediction(i)
        /\ Response(i).status = 400
        /\ ~Has(Response(i).body, "type")

\* C20: an OPTIONS request is answered at once with status 200 and a null
\* body, whatever its body (unparseable or a well-formed prediction request)
\* and whatever PYTHON_ML_ENDPOINT is (unset, empty, set); the invocation
\* makes no downstream call and returns nothing else.
C20_OptionsIs200WithoutWork ==
    \A i \in DOMAIN pc :
        req[i].method = "OPTIONS"
        => /\ Done(i)
           /\ responses[i] = << [status |-> 200, body |-> NullBody] >>
           /\ fetchCalls[i] = <<>>
           /\ mlResponse[i] = NoReply
           /\ ~aborted[i]

C20_Witness ==
    \E i \in DOMAIN pc :
        /\ req[i].method = "OPTIONS" /\ req[i].body = InvalidJson
        /\ Done(i) /\ Response(i).status = 200
        /\ ~Falsy(PYTHON_ML_ENDPOINT)

\* The result is one that fuse computed without an error.
Computed == result.error = ""

\* The score the severity is derived from: the fused score when the result
\* has one, the questionnaire score otherwise.
Authoritative ==
    IF result.fusedScore.t = "number" THEN result.fusedScore.n
    ELSE result.normalizedScore

Rank(tier) ==
    CASE tier = "low" -> 0 [] tier = "mild" -> 1 [] tier = "moderate" -> 2
      [] tier = "high" -> 3

\* C13: for a questionnaire score n and a prediction score p, both in
\* [0,100], the fused score is the whole number nearest to 0.6 n + 0.4 p
\* (halves upwards) and lies in [0,100]; 80 and 20 give 56, 70 and 30 give 54.
C13_FusedScoreIsRounded6040 ==
    (Computed /\ result.videoPrediction.present)
    => LET n == result.normalizedScore
           p == result.videoPrediction.prediction_score
           f == result.fusedScore.n
       IN  /\ result.fusedScore.t = "number"
           /\ f % 100 = 0
           /\ 10 * f - 500 <= 6 * n + 4 * p
           /\ 6 * n + 4 * p < 10 * f + 500
           /\ 0 <= f /\ f <= 10000
           /\ (n = 8000 /\ p = 2000) => f = 5600
           /\ (n = 7000 /\ p = 3000) => f = 5400

C13_Witness ==
    /\ Computed
    /\ result.normalizedScore = 8000
    /\ result.videoPrediction = VideoPrediction(2000, 90)
    /\ result.fusedScore = Num(5600)

C15_FusedIffVideoPrediction ==
    Computed
    => /\ (result.fusedScore.t = "number") <=> result.videoPrediction.present
       /\ ShowsFusedScore <=> result.videoPrediction.present
       /\ ShowsFusedScore <=> ShowsVideoPrediction

\* C16: every score in [0,100] gets exactly one of the four tiers, the one
\* of the canonical table applied to the authoritative score (25 is mild,
\* 45 moderate, 65 high), and a higher score never gets a lower tier.
C16_SeverityFollowsCanonicalTable ==
    Computed
    => LET a == Authoritative
       IN  /\ result.severity \in {"low", "mild", "moderate", "high"}
           /\ result.severity = "low" <=> (0 <= a /\ a < 2500)
           /\ result.severity = "mild" <=> (2500 <= a /\ a < 4500)
           /\ result.severity = "moderate" <=> (4500 <= a /\ a < 6500)
           /\ result.severity = "high" <=> (6500 <= a /\ a <= 10000)
           /\ \A b \in NormalizedScores :
                  (InRange(b) /\ a <= b)
                  => Rank(result.severity) <= Rank(fuse(b, NoVideoPrediction).severity)

C16_Witness ==
    /\ Computed
    /\ ~result.videoPrediction.present
    /\ result.normalizedScore = 2500
    /\ result.severity = "mild"

\* C17 (as claimed): the band of the final score that selects the report's
\* interpretation and recommended next steps lies within the severity tier
\* the result carries: every score that is given the same recommendations is
\* assigned the same tier.
C17_ReportBandIsSeverityTier ==
    Computed
    => \A score \in NormalizedScores :
           (InRange(score) /\ ReportBandOf(score) = ReportBand)
           => severity(score) = result.severity

\* The insert statements saveAssessment call k has sent to assessment_history.
Inserts(k) == Cardinality({c \in DOMAIN dbCalls : dbCalls[c] = [op |-> "insert", by |-> k]})

\* C18: a saveAssessment call with an authenticated user sends exactly one
\* insert (none before getUser has answered) and the hook sends nothing but
\* inserts and selects; a call without a user sends no insert and ends with
\* the error toast for "User not authenticated"; the rows of the table are
\* only ever appended to, one for each insert the table accepts, and a row
\* once written is never changed or removed.
C18_SaveIsOneInsertAppendOnly ==
    /\ [](/\ \A c \in DOMAIN dbCalls : dbCalls[c].op \in {"insert", "select"}
          /\ \A k \in DOMAIN save :
                 /\ session = NoUser
                    => /\ Inserts(k) = 0
                       /\ save[k].pc \in {"getUser", "done"}
                       /\ save[k].pc = "done"
                          => save[k].error = "User not authenticated"
                 /\ session # NoUser
                    => Inserts(k) = IF save[k].pc = "getUser" THEN 0 ELSE 1
          /\ session = NoUser => table = <<>>
          /\ Len(table) <= Cardinality({c \in DOMAIN dbCalls : dbCalls[c].op = "insert"}))
    /\ [][\/ table' = table
          \/ /\ Len(table') = Len(table) + 1
             /\ SubSeq(table', 1, Len(table)) = table]_vars

C18_Witness ==
    /\ session # NoUser
    /\ Len(save) = 2
    /\ \A k \in DOMAIN save : save[k].pc = "done" /\ save[k].error = ""
    /\ Len(table) = 2

\* What belongs to invocation i alone: its position, its request, its
\* downstream calls and reply, its abort signal and its responses.
Local(i) == <<pc[i], req[i], fetchCalls[i], mlResponse[i], aborted[i], responses[i]>>

\* The responses the handler can return for a request, an endpoint, a
\* downstream reply and an abort signal.
Outcomes(r, endpoint, reply, timedOut) ==
    IF BeforeFetch(r, endpoint) # NoResponse THEN {BeforeFetch(r, endpoint)}
    ELSE IF timedOut THEN {CatchResponse(Error(message)) : message \in TimeoutMessages}
    ELSE IF reply.status = 0 THEN {CatchResponse(Error(NETWORK_ERROR))}
    ELSE IF ~Ok(reply.status) THEN {CatchResponse(UpstreamError(reply.status, reply.text))}
    ELSE {AfterJson(reply.json)}

\* C19: with several invocations in progress, under every interleaving of
\* their steps, a finished invocation has returned one response, which is one
\* the handler returns for its own request, the configured endpoint, its own
\* downstream reply and its own timeout; the endpoint is never written; and no
\* step of one invocation (a reply, a failure, a timeout) changes anything that
\* belongs to another invocation.
C19_InvocationsDoNotInterfere ==
    /\ [](\A i \in DOMAIN pc :
              Done(i)
              => /\ Len(responses[i]) = 1
                 /\ Response(i) \in Outcomes(req[i], PYTHON_ML_ENDPOINT,
                                             mlResponse[i], aborted[i]))
    /\ [][/\ PYTHON_ML_ENDPOINT' = PYTHON_ML_ENDPOINT
          /\ \A i, j \in DOMAIN pc :
                 (i # j /\ Local(i)' # Local(i)) => Local(j)' = Local(j)]_vars

C19_Witness ==
    \E i, j \in DOMAIN pc :
        /\ i # j
        /\ Done(i) /\ aborted[i] /\ Response(i).status \in {500, 504}
        /\ Done(j) /\ ~aborted[j] /\ Response(j).status = 200
        /\ mlResponse[j].json = PredictionJson(Num(4520), Num(90), Undefined)

\* handleVideoUpload has returned after its prediction request failed: the
\* invocation came back with an error, or threw.
AnalysisFailed == upload.exit \in {"predictionError", "predictionThrew"}

Completed == outcome.phase = "completed"

\* C11: when predict-video answers the invocation that follows a successful
\* upload with an error, or the invocation throws, that step writes no
\* prediction (videoPrediction is what it was, and absent when the upload
\* began without one); once the handler has returned this way, uploading and
\* predictingVideo are false and the video URL is recorded; and a user who
\* keeps filling in, answering and pressing Next reaches onComplete.
C11_FailedAnalysisDoesNotBlock ==
    /\ [](AnalysisFailed
          => /\ ~uploading /\ ~predictingVideo
             /\ upload.pc = "idle"
             /\ metadata.videoUrl # 0)
    /\ [][(upload.pc = "invoke" /\ AnalysisFailed')
          => /\ metadata'.videoPrediction = metadata.videoPrediction
             /\ upload.metadata.videoPrediction = NoPrediction
                => metadata'.videoPrediction = NoPrediction]_vars
    /\ (AnalysisFailed ~> Completed)

C11_Witness ==
    /\ Completed
    /\ AnalysisFailed
    /\ Len(invoked) = 1
    /\ outcome.metadata.videoUrl = 1
    /\ outcome.metadata.videoPrediction = NoPrediction
    /\ \A q \in Questions : outcome.answers[q] # "undefined"

\* What the step shown asks for apart from a video: the starred fields of
\* the form at step 0, the answer at a question step.
StepFilledIn ==
    IF currentStep = 0 /\ role = "parent"
    THEN metadata.childName # "" /\ metadata.childAge # ""
    ELSE IF currentStep = 0 /\ role = "clinician"
    THEN \A f \in ClinicianFields : clinicianMetadata[f] # ""
    ELSE IF currentQuestion # 0 THEN answers[currentQuestion] # "undefined"
    ELSE TRUE

\* C12 (as claimed): a user of any role who has uploaded no video can pass
\* every step: whenever the step shown is filled in, Next is enabled.
C12_NextEnabledWithoutVideo ==
    (Active /\ upload.n = 0 /\ StepFilledIn) => canProceed

\* ---- C21 ----
\* The invocations of predict-video made for upload attempt n.
InvocationsFor(n) == {k \in 1..Len(invoked) : invoked[k].videoUrl = n}

\* C21: predict-video is invoked only in the step in which the storage upload
\* of the running handler succeeds, once, and with the public URL of the file
\* just stored, which is also the URL recorded in the metadata; every
\* invocation made so far is for a stored file; a handler that returned for a
\* missing user or a failed upload has made no invocation; and the step that
\* rejects an oversize file starts no handler, stores nothing and invokes
\* nothing.
C21_PredictionOnlyAfterUpload ==
    /\ [](\A k \in 1..Len(invoked) : invoked[k].videoUrl \in stored)
    /\ [](\A n \in stored : Cardinality(InvocationsFor(n)) = 1)
    /\ [](upload.exit \in {"noUser", "uploadError"}
            => upload.n \notin stored /\ InvocationsFor(upload.n) = {})
    /\ [][invoked' # invoked
            => /\ upload.pc = "upload"
               /\ upload.n \notin stored /\ upload.n \in stored'
               /\ invoked' = Append(invoked, [videoUrl |-> upload.n])
               /\ metadata'.videoUrl = upload.n]_vars
    /\ [][upload'.exit = "tooLarge" /\ upload' # upload
            => /\ upload.pc = "idle" /\ upload'.pc = "idle"
               /\ upload'.n = upload.n
               /\ stored' = stored /\ invoked' = invoked]_vars

\* A second attempt was abandoned (no user, or a failed upload) after a first
\* one was stored and sent to predict-video.
C21_Witness ==
    /\ upload.exit \in {"noUser", "uploadError"}
    /\ upload.n = 2
    /\ stored = {1}
    /\ Len(invoked) = 1

\* ---- C22 ----
\* C22: the step in which the storage upload completes and the video URL is
\* recorded leaves the parent's fields (child name, age) as they were just
\* before it, so what was typed while the upload was in flight is kept.
C22_EditsSurviveUpload ==
    [][upload.pc = "upload" /\ upload'.pc = "invoke"
         => /\ metadata'.videoUrl = upload.n
            /\ \A field \in ParentFields : metadata'[field] = metadata[field]]_vars

\* ---- C23 ----
\* C23: once no upload is running, a video prediction held in the metadata
\* is the one obtained for the video whose URL the metadata records.
C23_PredictionIsForRecordedVideo ==
    (upload.pc = "idle" /\ metadata.videoPrediction # NoPrediction)
        => metadata.videoPrediction.video = metadata.videoUrl

\* ---- C24 ----
\* C24: the step that calls onComplete is never taken while predict-video is
\* being awaited, so a prediction arriving later cannot be missing from the
\* metadata delivered.
C24_NoCompleteWhilePredicting ==
    [][outcome.phase = "active" /\ outcome'.phase = "completed"
         => ~predictingVideo /\ upload.pc # "invoke"]_vars

\* ---- C25 ----
\* The ways handleVideoUpload returns once it has a file.
HandlerExits ==
    {"tooLarge", "noUser", "uploadError", "predictionError", "noData",
     "predictionThrew", "analyzed"}

\* C25: a handler starts only when no other one is running, because a
\* running handler keeps `uploading` true and with it the file input
\* disabled; predictingVideo is true only while predict-video is awaited;
\* and when the handler has returned, whichever way, uploading and
\* predictingVideo are both false.
C25_OneUploadAndFlagsReset ==
    /\ [](upload.pc # "idle" => uploading /\ ~VideoInputEnabled)
    /\ [](predictingVideo <=> upload.pc = "invoke")
    /\ [](upload.pc = "idle" => ~uploading /\ ~predictingVideo)
    /\ [](upload.pc = "idle" <=> upload.exit \in HandlerExits \cup {"none"})
    /\ [][upload'.exit = "running" /\ upload.exit # "running"
            => upload.pc = "idle" /\ upload'.n = upload.n + 1]_vars
    /\ [][upload.exit = "running" /\ upload'.exit # "running"
            => /\ upload'.exit \in HandlerExits
               /\ ~uploading' /\ ~predictingVideo']_vars

\* A second handler has run to the end, through a prediction that threw,
\* after a first one was analysed; both flags are false again.
C25_Witness ==
    /\ upload.exit = "predictionThrew"
    /\ upload.n = 2
    /\ stored = {1, 2}
    /\ ~uploading /\ ~predictingVideo

\* ---- C26 ----
\* The step at which question q of the bank is shown.
StepOf(q) == firstQuestionStep + q - 1

\* C26: every question shown at a step before the current one has an answer;
\* when onComplete has been called the answers it was given cover every
\* question of the bank, and are the answers held at that moment.
C26_CompleteOnlyWhenAllAnswered ==
    /\ [](\A q \in Questions : StepOf(q) < currentStep => answers[q] # "undefined")
    /\ [](outcome.phase = "completed"
            => \A q \in Questions : outcome.answers[q] \in AnswerValues)
    /\ [][outcome.phase = "active" /\ outcome'.phase = "completed"
            => /\ currentStep = totalSteps
               /\ outcome'.answers = answers
               /\ \A q \in Questions : answers[q] # "undefined"]_vars

\* onComplete has been called, from the last step, with an answer for every
\* question.
C26_Witness ==
    /\ outcome.phase = "completed"
    /\ \A q \in Questions : outcome.answers[q] \in AnswerValues
    /\ currentStep = totalSteps

\* ---- C27 ----
\* What step s is by the step arithmetic of lines 69-74: the metadata step
\* (step 0 of a parent or clinician), the video step, the step of a question
\* of the bank, or a step past the last question.
StepKind(s) ==
    IF s = 0 /\ role # "individual" THEN "metadata"
    ELSE IF s = videoStep THEN "video"
    ELSE IF s >= firstQuestionStep /\ s - firstQuestionStep < NumQuestions
    THEN "question"
    ELSE "pastLast"

\* C27: the current step stays within 0..totalSteps, and every step below
\* totalSteps, the current one included when it is below, is the metadata
\* step, the video step or the step of a question of the bank
\* (currentQuestionIndex < questions.length).
C27_StepWithinBounds ==
    /\ currentStep \in 0..totalSteps
    /\ \A s \in 0..(totalSteps - 1) : StepKind(s) # "pastLast"
    /\ currentStep < totalSteps
         => /\ StepKind(currentStep) # "pastLast"
            /\ currentQuestionIndex < NumQuestions
            /\ (StepKind(currentStep) = "question" <=> currentQuestion # 0)

\* The wizard stands at its last step, totalSteps, with every question
\* answered and onComplete not yet called.
C27_Witness ==
    /\ currentStep = totalSteps
    /\ outcome.phase = "active"
    /\ \A q \in Questions : answers[q] # "undefined"

\* ---- C28 ----
\* C28: the questionnaire is left through onBack only from step 0; from
\* every later step, step 1 included, Previous leads to the step before and
\* the questionnaire stays open.
C28_PreviousGoesBackOneStep ==
    [][outcome.phase = "active" /\ outcome'.phase = "left"
         => currentStep = 0]_vars

\* ---- C29 ----
\* C29: every row the table takes from a saveAssessment call holds, for the
\* result r of that call: ml_score null exactly when r has no video
\* prediction and the prediction score otherwise (0 included); fused_score
\* the fused score when r has one and the questionnaire score otherwise; so
\* ml_score null implies fused_score = questionnaire_score.
C29_RowScoresFollowResult ==
    [][Len(table') = Len(table) + 1
         => \E k \in DOMAIN save :
              LET row == table'[Len(table')]
                  r == save[k].result
              IN  /\ save[k].pc = "insert"
                  /\ row.ml_score = Null <=> ~r.videoPrediction.present
                  /\ r.videoPrediction.present
                       => row.ml_score = Num(r.videoPrediction.prediction_score)
                  /\ row.fused_score = IF r.fusedScore = Undefined
                                       THEN r.normalizedScore
                                       ELSE r.fusedScore.n
                  /\ row.questionnaire_score = r.normalizedScore
                  /\ row.ml_score = Null
                       => row.fused_score = row.questionnaire_score]_vars

\* ---- C30 ----
\* C30: when every select has been answered without an error, the history
\* holds the row of each saveAssessment call that has returned without an
\* error (the rows are in the table in the order of the calls that inserted
\* them), and it is ordered newest first.
C30_HistoryHoldsSavedRecord ==
    (\A f \in DOMAIN fetches : ~fetches[f].error)
        => /\ \A k \in DOMAIN save :
                (save[k].pc = "done" /\ save[k].error = "")
                    => LET inserted == {j \in 1..k : save[j].error = ""}
                       IN  \E h \in DOMAIN history :
                               history[h] = table[Cardinality(inserted)]
           /\ \A h \in 1..(Len(history) - 1) :
                  history[h].created_at > history[h + 1].created_at
====
